---- MODULE Spec2Model ----
\* goai-kit: the conversation driver (ask) and the graph engine (Graph.run).
EXTENDS Integers, Sequences, FiniteSets, TLC

\* ---------------------------------------------------------------- bounds
\* largest number of tool-call requests the endpoint makes during one Ask call
MaxCalls == 2
\* largest number of tool rounds the endpoint asks for during one Ask call
MaxRounds == 2
\* cap on the transport attempts of one retry.Do (budget 0 retries for ever)
MaxAttempts == 4
\* largest number of node executions followed in one graph run
MaxSteps == 4
\* largest number of runs followed on one graph
MaxRuns == 2
\* largest number of nodes given to NewGraph
MaxNodes == 2
\* largest number of hooks registered on one client
MaxHooks == 2
\* largest number of executions of an AI node followed in one graph run
MaxAIExecs == 2
\* largest number of files given with WithFiles
MaxFiles == 2
\* largest number of documents given to one StoreDocumentsBatch call
MaxBatch == 2
\* largest number of filters given to one SearchDocuments call
MaxFilters == 2

\* ---------------------------------------------------------------- constants
\* AskConfig{Retries: 3}
DefaultRetries == 3
\* retry budgets a caller can configure with WithRetries (uint), default kept
RetryBudgets == {0, 1, DefaultRetries}

GraphExit == ""
GraphRetry == "__built_in__retry"

\* ================================================================ ask
VARIABLES
    pc,             \* position of ask: "init", "call", "tools", "done", "crashed"
    cfgRetries,     \* cfg.Retries
    outputIsString, \* Output type parameter is string
    lfConfigured,   \* client.config.lf != nil
    cfgPrompt,      \* cfg.Prompt
    cfgSystem,      \* cfg.System
    cfgFiles,       \* cfg.Files, each file by what its DataURI contains
    clientHooks,    \* the hooks registered on the client, in registration order
    params,         \* ask's params apart from Messages: [schema, trail]
    beforeOut,      \* the params applyBeforeRequestHooks returned
    lastParams,     \* the params the last transport attempt sent
    afterIn,        \* the pair applyAfterRequestHooks was called with last: [resp, err, trail]
    afterOut,       \* the pair applyAfterRequestHooks returned last: [resp, err, trail]
    processed,      \* the pair ask went on with after that: [resp, err, trail]
    ctxCancelled,   \* ctx.Done() has fired
    messages,       \* params.Messages
    chatCompletion, \* <<>> (nil) or <<response>>
    err,            \* the err variable of ask, shared with the tool goroutines
    attempts,       \* transport attempts made by the current retry.Do
    failures,       \* how many of them returned an error
    modelCalls,     \* number of retry.Do calls entered
    rounds,         \* number of tool rounds started
    callsSeen,      \* number of tool-call requests received so far
    task,           \* position of each tool goroutine of the round
    taskResult,     \* result variable of each tool goroutine
    errSeen,        \* the value each goroutine's test "err != nil" read from the shared err
    snap,           \* slice length each goroutine read when it began its append
    lock,           \* holder of the sync.Mutex (0: free)
    handlerRuns,    \* invocations of each request's Runner in the round
    handlerErr,     \* what each request's Tool.Run returned: "none","nil","tool","decode"
    appended,       \* the goroutine executed its append
    msgBase,        \* Len(messages) before the round's assistant message
    toolFailed,     \* some Tool.Run of the call returned an error
    beforeHookRuns, \* calls of applyBeforeRequestHooks
    afterHookRuns,  \* calls of applyAfterRequestHooks
    lastRequest,    \* messages of the request the last transport attempt sent
    result          \* what ask returned: [out, err]

VARIABLES
    argsJson,       \* the argument text given to Tool.Run
    toolPc,         \* "ready", "returned"
    runnerArgs,     \* the args the Runner was called with, if it was
    runnerCalls,    \* calls of t.Runner
    toolResult      \* what Tool.Run returned

VARIABLES
    aipc,           \* "idle": the Runner is not executing; "asking": it is inside Ask
    nodeArg,        \* arg.Context of the execution
    promptFailed,   \* node.PromptGenerator returned an error in this execution
    askCalls,       \* calls of Ask in this execution
    callbackCalls,  \* calls of node.Callback in this execution
    callbackArgs,   \* what the Callback was called with: <<[output, ctx]>>
    callbackReturn, \* what the Callback returned: <<[ctx, next, failed]>>
    nodeReturn      \* what the Runner returned: <<[ctx, next, err]>>

askVars == <<pc, cfgRetries, outputIsString, lfConfigured, cfgPrompt, cfgSystem, cfgFiles, clientHooks, params,
             beforeOut, lastParams, afterIn, afterOut, processed, ctxCancelled, messages,
             chatCompletion, err, attempts, failures, modelCalls, rounds, callsSeen, task,
             taskResult,
             errSeen, snap, lock, handlerRuns, handlerErr, appended, msgBase, toolFailed,
             beforeHookRuns, afterHookRuns, lastRequest, result>>

\* ================================================================ graph
VARIABLES
    gNodes,          \* the nodes given to NewGraph, by name
    gpc,             \* "new", "rejected", "idle", "running", "done"
    graph,           \* <<>> (nil) or <<[nodes, entrypoint]>>
    currentNodeName, \* Graph.run's currentNodeName
    currentContext,  \* Graph.run's currentContext
    initialContext,  \* the context the caller gave this run
    gLog,            \* the node executions of this run, in order
    gRuns,           \* runs started on the graph
    gResult          \* what Run returned: [ctx, err]

graphVars == <<gNodes, gpc, graph, currentNodeName, currentContext, initialContext,
               gLog, gRuns, gResult>>

\* Tool.Run
toolVars == <<argsJson, toolPc, runnerArgs, runnerCalls, toolResult>>

\* the Runner NewAICallNode builds
aiVars == <<aipc, nodeArg, promptFailed, askCalls, callbackCalls, callbackArgs,
            callbackReturn, nodeReturn>>

\* ================================================================ RedisVectorDB
VARIABLES
    indexConfig,    \* r.indexConfig: <<>> for nil, else <<[Dimensions |-> d]>>
    store,          \* ids of the documents whose hash is in Redis
    searchFilters,  \* search.Filters of the searches the caller makes
    vOp             \* the last operation called on the RedisVectorDB and what it did

vecVars == <<indexConfig, store, searchFilters, vOp>>

\* no operation has been called yet
NoOp == [op |-> "none", err |-> "nil", docs |-> <<>>, before |-> {}, embedCalls |-> 0,
         dims |-> <<>>, queued |-> <<>>, written |-> {}, query |-> <<>>]

\* NewRedisVectorDB on an empty Redis
VecIdle ==
    /\ indexConfig = <<>>
    /\ store = {}
    /\ searchFilters = <<>>
    /\ vOp = NoOp

vars == <<askVars, graphVars, toolVars, aiVars, vecVars>>

cfgVars == <<cfgRetries, outputIsString, lfConfigured, cfgPrompt, cfgSystem, cfgFiles, clientHooks>>
hookVars == <<params, beforeOut, lastParams, afterIn, afterOut, processed>>
taskVars == <<task, taskResult, errSeen, snap, lock, handlerRuns, handlerErr, appended>>

\* kinds of tool-call request: a registered tool with decodable arguments, a
\* registered tool with malformed arguments, a name missing from cfg.Tools
CallKinds == {"ok", "badargs", "unknown"}

SeqsUpTo(S, n) == UNION {[1..k -> S] : k \in 0..n}

\* responses of the endpoint: no choice at all, a final answer, or tool calls
Responses ==
    {[choices |-> 0, content |-> "", calls |-> <<>>]}
    \cup {[choices |-> 1, content |-> c, calls |-> <<>>] : c \in {"json", "text"}}
    \cup {[choices |-> 1, content |-> "", calls |-> k] : k \in SeqsUpTo(CallKinds, MaxCalls) \ {<<>>}}

\* a message of params.Messages: role, tool-call id, text content, content parts
SystemMessage == [role |-> "system", call |-> <<0, 0>>, content |-> cfgSystem, parts |-> <<>>]
UserMessage == [role |-> "user", call |-> <<0, 0>>, content |-> cfgPrompt, parts |-> <<>>]
AssistantMessage(r, round) ==
    [role |-> "assistant", call |-> <<round, 0>>, content |-> r.content, parts |-> <<>>]

\* what a file's DataURI contains: "/pdf", "image/", both of them or neither
FileKinds == {"pdf", "image", "both", "other"}

\* openai.UserMessage(parts) with a list of content parts
PartsMessage(parts) == [role |-> "user", call |-> <<0, 0>>, content |-> "", parts |-> parts]

\* the loop of applyAskConfig over cfg.Files: the file parts and the image parts
FileParts(files) == SelectSeq(files, LAMBDA f : f \in {"pdf", "both"})
ImageParts(files) == SelectSeq(files, LAMBDA f : f \in {"image", "both"})

\* variant: the attachment message is put after the messages already there
PrependAppending(msg, msgs) == msgs \o <<msg>>

\* append([]openai.ChatCompletionMessageParamUnion{msg}, params.Messages...)
Prepend(msg, msgs) == <<msg>> \o msgs

\* applyAskConfig on params.Messages: the files message, then the images one
WithAttachments(files, msgs) ==
    LET withFiles == IF Len(FileParts(files)) > 0
                     THEN Prepend(PartsMessage(FileParts(files)), msgs) ELSE msgs
    IN IF Len(ImageParts(files)) > 0
       THEN Prepend(PartsMessage(ImageParts(files)), withFiles) ELSE withFiles
\* variant: every tool message is tagged with the id of the round's first call
ToolMessageFirstId(content, round, i) ==
    [role |-> "tool", call |-> <<round, 1>>, content |-> content, parts |-> <<>>]

ToolMessage(content, round, i) ==
    [role |-> "tool", call |-> <<round, i>>, content |-> content, parts |-> <<>>]

\* json.Unmarshal of the final content into the output shape
Unmarshal(content) == IF content = "json" THEN [ok |-> TRUE, value |-> "decoded"]
                      ELSE [ok |-> FALSE, value |-> ""]

NoResult == [out |-> <<>>, err |-> "nil"]
Failure(e) == [out |-> <<>>, err |-> e]
Success(v) == [out |-> <<v>>, err |-> "nil"]

Calls == IF chatCompletion = <<>> THEN <<>> ELSE chatCompletion[1].calls
TaskIds == 1..Len(Calls)
NoTasks == [i \in {} |-> 0]

\* no graph is built or run
GraphIdle ==
    /\ gNodes = <<>>
    /\ gpc = "none"
    /\ graph = <<>>
    /\ currentNodeName = ""
    /\ currentContext = 0
    /\ initialContext = 0
    /\ gLog = <<>>
    /\ gRuns = 0
    /\ gResult = [ctx |-> <<>>, err |-> "nil"]

\* no AI node is executing
AIIdle ==
    /\ aipc = "idle"
    /\ nodeArg = 0
    /\ promptFailed = FALSE
    /\ askCalls = 0
    /\ callbackCalls = 0
    /\ callbackArgs = <<>>
    /\ callbackReturn = <<>>
    /\ nodeReturn = <<>>

NoParams == [schema |-> FALSE, trail |-> <<>>]
NoPair == [resp |-> <<>>, err |-> "nil", trail |-> <<>>]

\* a hook that rewrites the value it is given: it leaves its mark on it
Hook(h, v) == [v EXCEPT !.trail = Append(@, h)]

\* applyBeforeRequestHooks, applyAfterRequestHooks: each hook gets the value the
\* previous one returned, and the last value is returned
\* variant: every hook is given the original value, and the last one's return
\* value is the result
ApplyHooksFromOriginal(hooks, v) ==
    IF hooks = <<>> THEN v ELSE Hook(hooks[Len(hooks)], v)

RECURSIVE ApplyHooks(_, _)
ApplyHooks(hooks, v) ==
    IF hooks = <<>> THEN v ELSE ApplyHooks(Tail(hooks), Hook(Head(hooks), v))

\* argument texts: text that is not JSON, or a JSON object that gives each of
\* the keys it has a string, a number or null
ArgKeys == {"query", "limit", "extra"}
ArgKinds == {"string", "number", "null"}
ArgTexts ==
    {[wellFormed |-> FALSE, fields |-> <<>>]}
    \cup {[wellFormed |-> TRUE, fields |-> f] :
             f \in UNION {[K -> ArgKinds] : K \in SUBSET ArgKeys}}

NoToolResult == [out |-> <<>>, err |-> "nil"]

\* Tool.Run has not been called
ToolIdle ==
    /\ argsJson = [wellFormed |-> TRUE, fields |-> <<>>]
    /\ toolPc = "ready"
    /\ runnerArgs = <<>>
    /\ runnerCalls = 0
    /\ toolResult = NoToolResult

\* ask has not been called
AskIdle ==
    /\ pc = "init"
    /\ params = NoParams
    /\ beforeOut = NoParams
    /\ lastParams = NoParams
    /\ afterIn = NoPair
    /\ afterOut = NoPair
    /\ processed = NoPair
    /\ ctxCancelled = FALSE
    /\ messages = <<>>
    /\ chatCompletion = <<>>
    /\ err = "nil"
    /\ attempts = 0
    /\ failures = 0
    /\ modelCalls = 0
    /\ rounds = 0
    /\ callsSeen = 0
    /\ task = NoTasks
    /\ taskResult = NoTasks
    /\ errSeen = NoTasks
    /\ snap = NoTasks
    /\ lock = 0
    /\ handlerRuns = NoTasks
    /\ handlerErr = NoTasks
    /\ appended = NoTasks
    /\ msgBase = 0
    /\ toolFailed = FALSE
    /\ beforeHookRuns = 0
    /\ afterHookRuns = 0
    /\ lastRequest = <<>>
    /\ result = NoResult

Init ==
    /\ AskIdle
    /\ cfgRetries \in RetryBudgets
    /\ outputIsString \in BOOLEAN
    /\ lfConfigured \in BOOLEAN
    /\ cfgPrompt = "prompt"
    /\ cfgSystem \in {"", "system"}
    /\ cfgFiles = <<>>
    /\ clientHooks = <<>>
    /\ GraphIdle
    /\ ToolIdle
    /\ AIIdle
    /\ VecIdle

\* variant: the schema is attached whatever the output type
ResponseFormatAttachedAlways(isString) == TRUE

\* the switch on the output type: params.ResponseFormat is set unless it is string
ResponseFormatAttached(isString) == ~isString

\* variant: applyBeforeRequestHooks is called below label aa, once per turn
BeforeHookRunsAtEveryTurn(label, n) == n + 1

\* runs of the before stage once ask has passed the label: the call of
\* applyBeforeRequestHooks stands above label aa, so goto aa does not reach it
BeforeHookRunsAt(label, n) == IF label = "entry" THEN n + 1 ELSE n

\* ask, from its entry to the first retry.Do
AskStart ==
    /\ pc = "init"
    /\ messages' = WithAttachments(cfgFiles,
                        (IF cfgSystem # "" THEN <<SystemMessage>> ELSE <<>>) \o <<UserMessage>>)
    /\ params' = [schema |-> ResponseFormatAttached(outputIsString), trail |-> <<>>]
    /\ beforeOut' = ApplyHooks(clientHooks, params')
    /\ beforeHookRuns' = BeforeHookRunsAt("entry", beforeHookRuns)
    /\ modelCalls' = 1
    /\ attempts' = 0
    /\ failures' = 0
    /\ pc' = "call"
    /\ UNCHANGED <<cfgVars, taskVars, ctxCancelled, chatCompletion, err, rounds, callsSeen, msgBase,
                   toolFailed, afterHookRuns, lastRequest, result,
                   lastParams, afterIn, afterOut, processed>>
    /\ UNCHANGED <<graphVars, toolVars, aiVars, vecVars>>


\* the caller's context is cancelled or times out; ask observes it in retry.Do
\* only, so a cancellation during a tool round is the one right after its join
Cancel ==
    /\ pc \in {"init", "call"}
    /\ ~ctxCancelled
    /\ ctxCancelled' = TRUE
    /\ UNCHANGED <<cfgVars, hookVars, taskVars, pc, messages, chatCompletion, err, attempts, failures,
                   modelCalls,
                   rounds, callsSeen, msgBase, toolFailed, beforeHookRuns, afterHookRuns, lastRequest,
                   result>>
    /\ UNCHANGED <<graphVars, toolVars, aiVars, vecVars>>

\* variant: the last-attempt test compares with the budget instead of budget - 1
RetryExhaustedOffByOne(n, budget) == budget # 0 /\ n = budget + 1

\* retry.Do gives up after a failed attempt: budget 0 never does
RetryExhausted(n, budget) == budget # 0 /\ n = budget

\* variant: the closure works on a copy of params taken before the loop
RequestMessagesCopied(initial, current) == initial

\* the messages of the request apiCallFunc sends: params is captured by reference
RequestMessages(initial, current) == current

InitialMessages == SelectSeq(messages, LAMBDA m : m.role \in {"system", "user"})

\* the params apiCallFunc sends: ask drops what applyBeforeRequestHooks returns
SentParams(own, hooked) == own

\* the pair ask goes on with: ask drops what applyAfterRequestHooks returns
ProcessedPair(given, hooked) == given

\* client.applyAfterRequestHooks(reqContext, chatCompletion, err)
AfterHooks(resp, e) ==
    LET given == [resp |-> resp, err |-> e, trail |-> <<>>] IN
    /\ afterIn' = given
    /\ afterOut' = ApplyHooks(clientHooks, given)
    /\ processed' = ProcessedPair(given, ApplyHooks(clientHooks, given))

\* ask after a retry.Do that returned an error: after-hooks, then the wrapped error
RetryFailed(e) ==
    /\ err' = e
    /\ AfterHooks(chatCompletion, e)
    /\ afterHookRuns' = afterHookRuns + 1
    /\ result' = Failure("api_call_failed")
    /\ pc' = "done"

\* retry.Do finds the context done, before the first attempt or while waiting
RetryCancelled ==
    /\ pc = "call"
    /\ ctxCancelled
    /\ RetryFailed("ctx")
    /\ UNCHANGED <<cfgVars, taskVars, ctxCancelled, messages, chatCompletion, attempts,
                   failures, modelCalls, rounds, callsSeen, msgBase, toolFailed, beforeHookRuns,
                   lastRequest, params, beforeOut, lastParams>>
    /\ UNCHANGED <<graphVars, toolVars, aiVars, vecVars>>

\* variant: retry.Do is not given retry.Context(ctx)
ContextAllowsAttemptIgnored(cancelled) == TRUE

\* retry.Do with retry.Context(ctx) starts an attempt only while ctx is live
ContextAllowsAttempt(cancelled) == ~cancelled

\* one transport attempt of retry.Do that returns an error
AttemptFail ==
    /\ pc = "call"
    /\ ContextAllowsAttempt(ctxCancelled)
    /\ attempts < MaxAttempts
    /\ attempts' = attempts + 1
    /\ failures' = failures + 1
    /\ lastRequest' = RequestMessages(InitialMessages, messages)
    /\ lastParams' = SentParams(params, beforeOut)
    /\ IF RetryExhausted(attempts + 1, cfgRetries)
         THEN RetryFailed("transport")
         ELSE UNCHANGED <<err, afterHookRuns, result, pc, afterIn, afterOut, processed>>
    /\ UNCHANGED <<cfgVars, taskVars, ctxCancelled, messages, chatCompletion, modelCalls,
                   rounds, callsSeen, msgBase, toolFailed, beforeHookRuns, params, beforeOut>>
    /\ UNCHANGED <<graphVars, toolVars, aiVars, vecVars>>

\* variant: the length of Choices is not looked at
NoChoicesUnchecked(r) == FALSE

\* len(chatCompletion.Choices) == 0
NoChoices(r) == r.choices = 0

\* the response carries tool-call requests
HasToolCalls(r) == Len(r.calls) > 0

\* variant: the value filled so far is returned next to the decode error
FinalResultPartial(r) ==
    IF outputIsString THEN Success(r.content)
    ELSE IF Unmarshal(r.content).ok THEN Success(Unmarshal(r.content).value)
    ELSE [out |-> <<"partial">>, err |-> "unmarshal_failed"]

\* what ask returns from a response without tool calls
FinalResult(r) ==
    IF outputIsString THEN Success(r.content)
    ELSE IF Unmarshal(r.content).ok THEN Success(Unmarshal(r.content).value)
    ELSE Failure("unmarshal_failed")

\* one transport attempt that succeeds, and ask up to its next suspension point
AttemptSuccess ==
    /\ pc = "call"
    /\ ContextAllowsAttempt(ctxCancelled)
    /\ attempts < MaxAttempts
    /\ \E r \in Responses :
        /\ HasToolCalls(r) => (rounds < MaxRounds /\ callsSeen + Len(r.calls) <= MaxCalls)
        /\ attempts' = attempts + 1
        /\ lastRequest' = RequestMessages(InitialMessages, messages)
        /\ lastParams' = SentParams(params, beforeOut)
        /\ chatCompletion' = <<r>>
        /\ err' = "nil"
        /\ AfterHooks(<<r>>, "nil")
        /\ afterHookRuns' = afterHookRuns + 1
        /\ IF NoChoices(r)
             THEN /\ result' = Failure("no_choices")
                  /\ pc' = "done"
                  /\ UNCHANGED <<messages, taskVars, rounds, callsSeen, msgBase>>
             ELSE /\ messages' = Append(messages, AssistantMessage(r, rounds + 1))
                  /\ msgBase' = Len(messages)
                  /\ IF HasToolCalls(r)
                       THEN /\ rounds' = rounds + 1
                            /\ callsSeen' = callsSeen + Len(r.calls)
                            /\ task' = [i \in 1..Len(r.calls) |-> "spawned"]
                            /\ taskResult' = [i \in 1..Len(r.calls) |-> "null"]
                            /\ errSeen' = [i \in 1..Len(r.calls) |-> "nil"]
                            /\ snap' = [i \in 1..Len(r.calls) |-> 0]
                            /\ handlerRuns' = [i \in 1..Len(r.calls) |-> 0]
                            /\ handlerErr' = [i \in 1..Len(r.calls) |-> "none"]
                            /\ appended' = [i \in 1..Len(r.calls) |-> FALSE]
                            /\ lock' = 0
                            /\ pc' = "tools"
                            /\ UNCHANGED result
                       ELSE /\ result' = FinalResult(r)
                            /\ pc' = "done"
                            /\ UNCHANGED <<taskVars, rounds, callsSeen>>
    /\ UNCHANGED <<cfgVars, ctxCancelled, failures, modelCalls, toolFailed, beforeHookRuns,
                   params, beforeOut>>
    /\ UNCHANGED <<graphVars, toolVars, aiVars, vecVars>>

\* a tool goroutine up to the return of WithSpan: span, lookup, decode, Runner
TaskRun(i) ==
    /\ pc = "tools"
    /\ i \in TaskIds
    /\ task[i] = "spawned"
    /\ \/ \* Langfuse refuses the span: WithSpan returns without calling the closure
          /\ lfConfigured
          /\ task' = [task EXCEPT ![i] = "ran"]
          /\ UNCHANGED <<pc, err, taskResult, handlerRuns, handlerErr, toolFailed>>
       \/ \* cfg.Tools has no such name: method call on a nil interface panics
          /\ Calls[i] = "unknown"
          /\ pc' = "crashed"
          /\ UNCHANGED <<task, err, taskResult, handlerRuns, handlerErr, toolFailed>>
       \/ \* Tool.Run: json.Unmarshal of the arguments fails, Runner is not called
          /\ Calls[i] = "badargs"
          /\ err' = "decode"
          /\ handlerErr' = [handlerErr EXCEPT ![i] = "decode"]
          /\ task' = [task EXCEPT ![i] = "ran"]
          /\ UNCHANGED <<pc, taskResult, handlerRuns, toolFailed>>
       \/ \* Tool.Run: Runner is called and returns a value or an error
          /\ Calls[i] = "ok"
          /\ handlerRuns' = [handlerRuns EXCEPT ![i] = @ + 1]
          /\ \E ok \in BOOLEAN :
               /\ err' = IF ok THEN "nil" ELSE "tool"
               /\ handlerErr' = [handlerErr EXCEPT ![i] = IF ok THEN "nil" ELSE "tool"]
               /\ taskResult' = [taskResult EXCEPT ![i] = IF ok THEN "result" ELSE "null"]
               /\ toolFailed' = (toolFailed \/ ~ok)
          /\ task' = [task EXCEPT ![i] = "ran"]
          /\ UNCHANGED pc
    /\ UNCHANGED <<cfgVars, hookVars, ctxCancelled, messages, chatCompletion, attempts, failures, modelCalls,
                   rounds, callsSeen, errSeen, snap, lock, appended, msgBase, beforeHookRuns,
                   afterHookRuns, lastRequest, result>>
    /\ UNCHANGED <<graphVars, toolVars, aiVars, vecVars>>

\* the goroutine's first read of the shared err, the test of "if err != nil":
\* a non-nil value takes it into the branch that logs, nil on to json.Marshal
TaskCheck(i) ==
    /\ pc = "tools"
    /\ i \in TaskIds
    /\ task[i] = "ran"
    /\ task' = [task EXCEPT ![i] = IF err # "nil" THEN "failing" ELSE "marshalled"]
    /\ errSeen' = [errSeen EXCEPT ![i] = err]
    /\ UNCHANGED <<cfgVars, hookVars, ctxCancelled, messages, chatCompletion, err, attempts, failures,
                   modelCalls,
                   rounds, callsSeen, taskResult, snap, lock, handlerRuns, handlerErr, appended, msgBase,
                   toolFailed, beforeHookRuns, afterHookRuns, lastRequest, result, pc>>
    /\ UNCHANGED <<graphVars, toolVars, aiVars, vecVars>>

\* outcomes of err.Error() on the shared err, read a second time without
\* synchronisation: nil, stored by a sibling since the test, makes the call
\* panic; a value another sibling stored since then may be read whole
\* or torn (the two words of the interface from different stores), and a torn
\* value can make the call panic; the value the test saw is logged
ErrorCallOutcomes(seen, now) ==
    IF now = "nil" THEN {"panic"}
    ELSE IF now = seen THEN {"logged"}
    ELSE {"logged", "panic"}

\* the goroutine in the branch of "if err != nil": client.logger.Error with
\* err.Error(), then return; a panic in a goroutine ends the process
TaskLogError(i) ==
    /\ pc = "tools"
    /\ i \in TaskIds
    /\ task[i] = "failing"
    /\ \E outcome \in ErrorCallOutcomes(errSeen[i], err) :
         IF outcome = "panic"
         THEN pc' = "crashed" /\ UNCHANGED task
         ELSE task' = [task EXCEPT ![i] = "done"] /\ UNCHANGED pc
    /\ UNCHANGED <<cfgVars, hookVars, ctxCancelled, messages, chatCompletion, err, attempts, failures,
                   modelCalls,
                   rounds, callsSeen, taskResult, errSeen, snap, lock, handlerRuns, handlerErr, appended,
                   msgBase, toolFailed, beforeHookRuns, afterHookRuns, lastRequest, result>>
    /\ UNCHANGED <<graphVars, toolVars, aiVars, vecVars>>

\* variant: the append is not guarded by the mutex
MutexAvailableUnguarded(holder) == TRUE

\* lock.Lock() can return
MutexAvailable(holder) == holder = 0

\* lock.Lock(), and the read of the slice header that append begins with
TaskLock(i) ==
    /\ pc = "tools"
    /\ i \in TaskIds
    /\ task[i] = "marshalled"
    /\ MutexAvailable(lock)
    /\ lock' = i
    /\ snap' = [snap EXCEPT ![i] = Len(messages)]
    /\ task' = [task EXCEPT ![i] = "locked"]
    /\ UNCHANGED <<cfgVars, hookVars, ctxCancelled, messages, chatCompletion, err, attempts, failures,
                   modelCalls,
                   rounds, callsSeen, taskResult, errSeen, handlerRuns, handlerErr, appended, msgBase,
                   toolFailed, beforeHookRuns, afterHookRuns, lastRequest, result, pc>>
    /\ UNCHANGED <<graphVars, toolVars, aiVars, vecVars>>

\* the store of append, then the deferred lock.Unlock() and wg.Done()
TaskAppend(i) ==
    /\ pc = "tools"
    /\ i \in TaskIds
    /\ task[i] = "locked"
    /\ messages' = Append(SubSeq(messages, 1, snap[i]), ToolMessage(taskResult[i], rounds, i))
    /\ appended' = [appended EXCEPT ![i] = TRUE]
    /\ lock' = 0
    /\ task' = [task EXCEPT ![i] = "done"]
    /\ UNCHANGED <<cfgVars, hookVars, ctxCancelled, chatCompletion, err, attempts, failures, modelCalls,
                   rounds, callsSeen, taskResult, errSeen, snap, handlerRuns, handlerErr, msgBase,
                   toolFailed, beforeHookRuns, afterHookRuns, lastRequest, result, pc>>
    /\ UNCHANGED <<graphVars, toolVars, aiVars, vecVars>>

\* variant: the wait ends with the first goroutine that finishes
JoinReadyFirst(t) == \E i \in DOMAIN t : t[i] = "done"

\* wg.Wait() can return
JoinReady(t) == \A i \in DOMAIN t : t[i] = "done"

\* variant: one attempt counter serves the whole Ask call
AttemptsAtRetryDoCarried(used) == used

\* every retry.Do counts its attempts from 0
AttemptsAtRetryDo(used) == 0

\* wg.Wait() returns and ask jumps back to the retry.Do; the goroutines' own
\* variables are gone with them
Join ==
    /\ pc = "tools"
    /\ JoinReady(task)
    /\ pc' = "call"
    /\ attempts' = AttemptsAtRetryDo(attempts)
    /\ failures' = AttemptsAtRetryDo(failures)
    /\ modelCalls' = modelCalls + 1
    /\ taskResult' = NoTasks
    /\ errSeen' = NoTasks
    /\ snap' = NoTasks
    /\ handlerRuns' = NoTasks
    /\ handlerErr' = NoTasks
    /\ appended' = NoTasks
    /\ beforeHookRuns' = BeforeHookRunsAt("aa", beforeHookRuns)
    /\ UNCHANGED <<cfgVars, hookVars, task, lock, ctxCancelled, messages, chatCompletion, err, rounds, callsSeen,
                   msgBase, toolFailed, afterHookRuns, lastRequest, result>>
    /\ UNCHANGED <<graphVars, toolVars, aiVars, vecVars>>

Next ==
    \/ AskStart
    \/ Cancel
    \/ RetryCancelled
    \/ AttemptFail
    \/ AttemptSuccess
    \/ \E i \in 1..MaxCalls : TaskRun(i)
    \/ \E i \in 1..MaxCalls : TaskCheck(i)
    \/ \E i \in 1..MaxCalls : TaskLogError(i)
    \/ \E i \in 1..MaxCalls : TaskLock(i)
    \/ \E i \in 1..MaxCalls : TaskAppend(i)
    \/ Join


Spec == Init /\ [][Next]_vars

\* the hooks of a client: WithBeforeRequestHook / WithAfterRequestHook append
\* to the list, so hook k is the k-th one registered
HookLists == {[i \in 1..k |-> i] : k \in 0..MaxHooks}

\* Ask over the options Init leaves at their defaults: a call without
\* WithPrompt, or a call on a client with hooks
OptionsInit ==
    /\ AskIdle
    /\ cfgRetries = DefaultRetries
    /\ outputIsString \in BOOLEAN
    /\ lfConfigured \in BOOLEAN
    /\ cfgSystem \in {"", "system"}
    /\ cfgFiles = <<>>
    /\ \/ cfgPrompt = "" /\ clientHooks = <<>>
       \/ cfgPrompt = "prompt" /\ clientHooks \in HookLists \ {<<>>}
    /\ GraphIdle
    /\ ToolIdle
    /\ AIIdle
    /\ VecIdle

OptionsSpec == OptionsInit /\ [][Next]_vars

\* ask called with every combination of prompt, system text and files, followed
\* up to the first retry.Do: the request's initial message sequence
MessagesInit ==
    /\ AskIdle
    /\ cfgRetries = DefaultRetries
    /\ outputIsString \in BOOLEAN
    /\ lfConfigured = FALSE
    /\ cfgPrompt \in {"", "prompt"}
    /\ cfgSystem \in {"", "system"}
    /\ cfgFiles \in SeqsUpTo(FileKinds, MaxFiles)
    /\ clientHooks = <<>>
    /\ GraphIdle
    /\ ToolIdle
    /\ AIIdle
    /\ VecIdle

MessagesNext == AskStart

MessagesSpec == MessagesInit /\ [][MessagesNext]_vars

\* C34: in the initial message sequence the user prompt stands exactly once,
\* as the last entry; the system message, when one is configured, stands
\* immediately before it and nowhere else; everything before these is a user
\* message carrying attachment parts, and there is one for the files and one
\* for the images whenever such files are given
C34_InitialMessageOrder ==
    pc = "call" =>
        LET n == Len(messages)
            sys == IF cfgSystem # "" THEN 1 ELSE 0
        IN /\ n >= 1 + sys
           /\ messages[n] = [role |-> "user", call |-> <<0, 0>>, content |-> cfgPrompt, parts |-> <<>>]
           /\ \A i \in 1..(n - 1) : ~(messages[i].role = "user" /\ messages[i].parts = <<>>)
           /\ sys = 1 => (messages[n - 1].role = "system" /\ messages[n - 1].content = cfgSystem)
           /\ \A i \in 1..(n - 1 - sys) :
                 messages[i].role = "user" /\ messages[i].parts # <<>>
           /\ (\E j \in 1..Len(cfgFiles) : cfgFiles[j] \in {"pdf", "both"}) =>
                 \E i \in 1..(n - 1 - sys) :
                     \A q \in 1..Len(messages[i].parts) : messages[i].parts[q] \in {"pdf", "both"}
           /\ (\E j \in 1..Len(cfgFiles) : cfgFiles[j] \in {"image", "both"}) =>
                 \E i \in 1..(n - 1 - sys) :
                     \A q \in 1..Len(messages[i].parts) : messages[i].parts[q] \in {"image", "both"}

C34_Witness ==
    /\ pc = "call"
    /\ cfgSystem = "system"
    /\ cfgFiles = <<"image", "pdf">>
    /\ Len(messages) = 4
    /\ messages[1].parts = <<"image">>
    /\ messages[2].parts = <<"pdf">>

\* ---------------------------------------------------------------- properties of ask
\* the tool round has been joined: the next step of ask is the next model call
RoundJoined == pc = "tools" /\ JoinReady(task)

ToolMessagesOfRound ==
    {k \in 1..Len(messages) : messages[k].role = "tool" /\ messages[k].call[1] = rounds}

\* C1 (as claimed): when a round of K >= 1 tool-call requests has been joined,
\* every request's handler has been invoked exactly once and the message
\* sequence has grown by exactly K+1 entries since the turn began.
C1_HandlersOnceAndGrowth ==
    RoundJoined =>
        /\ \A i \in TaskIds : handlerRuns[i] = 1
        /\ Len(messages) = msgBase + Len(Calls) + 1

\* C2 (as claimed): once a tool handler has returned an error, no further model
\* call is entered and ask ends with an error and no output value.
C2_ToolErrorAbortsAsk ==
    toolFailed =>
        /\ pc \in {"tools", "done", "crashed"}
        /\ pc = "done" => (result.err # "nil" /\ result.out = <<>>)

\* C3: with the default budget of 3 a retry.Do never makes a fourth attempt; two
\* failures followed by a success give the response and no transport error; and
\* when the context is not cancelled the transport error is returned after
\* exactly 3 failed attempts.
C3_DefaultRetryBudget ==
    cfgRetries = DefaultRetries =>
        /\ attempts <= DefaultRetries
        /\ (attempts = 3 /\ failures = 2) =>
              (chatCompletion # <<>> /\ result.err # "api_call_failed")
        /\ (pc = "done" /\ result.err = "api_call_failed" /\ ~ctxCancelled) =>
              (attempts = 3 /\ failures = 3 /\ result.out = <<>>)

C3_Witness_FailFailSucceed ==
    /\ cfgRetries = DefaultRetries
    /\ pc = "done" /\ attempts = 3 /\ failures = 2 /\ result.err = "nil" /\ result.out # <<>>

C3_Witness_Exhausted ==
    /\ cfgRetries = DefaultRetries
    /\ pc = "done" /\ failures = 3 /\ result.err = "api_call_failed" /\ ~ctxCancelled

\* C5 (as claimed): when ask has returned, applyAfterRequestHooks has run
\* exactly once.
C5_AfterHooksOnce == pc = "done" => afterHookRuns = 1

\* C6: while a model call is in progress, and when ask has returned, no tool
\* goroutine of the preceding round is unfinished.
C6_JoinBarrier ==
    pc \in {"call", "done"} => \A i \in DOMAIN task : task[i] = "done"

C6_Witness ==
    /\ pc = "call" /\ modelCalls = 2 /\ attempts = 1
    /\ Len(task) = 2 /\ \A i \in DOMAIN task : task[i] = "done"

\* C7: at most one tool goroutine is inside the append at any time, and the
\* message of every goroutine that has appended is in the sequence.
C7_ExclusiveAppend ==
    /\ Cardinality({i \in DOMAIN task : task[i] = "locked"}) <= 1
    /\ \A i \in DOMAIN appended :
          appended[i] => \E k \in ToolMessagesOfRound : messages[k].call = <<rounds, i>>

C7_Witness ==
    /\ pc = "tools"
    /\ \E i, j \in DOMAIN appended :
          /\ i # j /\ appended[i] /\ appended[j]
          /\ Cardinality(ToolMessagesOfRound) = 2

\* C8: ask returns an output value only from a response without tool-call
\* requests; it returns only after a model call that follows the last tool
\* round; and the request every attempt sends holds all messages of the
\* earlier turns, the rounds' assistant and tool-result messages included.
C8_LoopUntilNoToolCalls ==
    /\ (pc = "done" /\ result.out # <<>>) => ~HasToolCalls(chatCompletion[1])
    /\ pc = "done" => modelCalls = rounds + 1
    /\ attempts > 0 =>
          \A k \in 1..Len(messages) :
              messages[k].call[1] < modelCalls =>
                  (k <= Len(lastRequest) /\ lastRequest[k] = messages[k])

C8_Witness ==
    /\ pc = "done" /\ result.out # <<>> /\ rounds = 1
    /\ \E k \in 1..Len(lastRequest) : lastRequest[k].role = "tool"
    /\ \E k \in 1..Len(lastRequest) : lastRequest[k].role = "assistant"

\* ================================================================ graph engine
\* names a caller can give a node: ordinary ones and the two reserved strings
\* the response ask is working on, if any
HasResponse == chatCompletion # <<>>
UnknownRequested == \E i \in DOMAIN Calls : Calls[i] = "unknown"

\* C12: when the response requests a tool name that is not registered, ask is
\* either still in that tool round or has returned an error: it never crashes
\* and never goes back to the endpoint for another turn
C12_UnknownToolIsTerminalError ==
    (pc # "init" /\ UnknownRequested) =>
        /\ pc \in {"tools", "done"}
        /\ pc = "done" => (result.err # "nil" /\ result.out = <<>>)

\* C13: when a tool round in which an invocation failed has been joined, the
\* message sequence holds no tool-result message of that round
C13_AbortedRoundAppendsNothing ==
    (RoundJoined /\ \E i \in TaskIds : handlerErr[i] \in {"tool", "decode"}) =>
        ToolMessagesOfRound = {}

\* C14: the params sent to the endpoint are the params the before-hook chain
\* returned, and the (response, error) pair ask processes after a model call is
\* the pair the after-hook chain returned
C14_HookResultsUsed ==
    /\ attempts > 0 => lastParams = beforeOut
    /\ afterHookRuns > 0 => processed = afterOut

\* C15: with output type string neither ask's params nor the request sent carry
\* a response-format schema, ask never reports a decode failure, and the value
\* it returns is the content of the final assistant message verbatim
C15_FreeTextVerbatim ==
    outputIsString =>
        /\ ~params.schema
        /\ ~lastParams.schema
        /\ result.err # "unmarshal_failed"
        /\ (pc = "done" /\ result.err = "nil") =>
              /\ HasResponse
              /\ messages[Len(messages)].role = "assistant"
              /\ result.out = <<messages[Len(messages)].content>>
              /\ result.out = <<chatCompletion[1].content>>

C15_Witness ==
    /\ outputIsString
    /\ pc = "done"
    /\ result = Success("json")
    /\ rounds >= 1

\* the final response of a structured-mode call did not decode
FinalUndecodable ==
    /\ pc = "done"
    /\ ~outputIsString
    /\ err = "nil"
    /\ HasResponse
    /\ chatCompletion[1].choices > 0
    /\ chatCompletion[1].calls = <<>>
    /\ chatCompletion[1].content # "json"

\* C16: in structured mode a final content that does not decode makes ask
\* return the decode error and no output value, and nothing is sent to the
\* endpoint after that response
C16_DecodeFailureTerminal ==
    /\ [](FinalUndecodable => result = Failure("unmarshal_failed"))
    /\ [][FinalUndecodable => (attempts' = attempts /\ modelCalls' = modelCalls)]_vars

C16_Witness == FinalUndecodable /\ rounds >= 1

\* retry.Do has just returned a response that carries zero choices
ZeroChoicesReceived ==
    /\ attempts' = attempts + 1
    /\ failures' = failures
    /\ chatCompletion' # <<>>
    /\ chatCompletion'[1].choices = 0

\* C17: a response with zero choices ends ask with the no-choices error in the
\* step that receives it: no message is appended, no tool goroutine is started,
\* and no later attempt is made
C17_ZeroChoicesTerminal ==
    /\ [][ZeroChoicesReceived =>
            /\ pc' = "done"
            /\ result' = Failure("no_choices")
            /\ messages' = messages
            /\ task' = task
            /\ handlerRuns' = handlerRuns]_vars
    /\ [][(pc = "done" /\ result.err = "no_choices") => attempts' = attempts]_vars

C17_Witness ==
    /\ pc = "done"
    /\ result = Failure("no_choices")
    /\ HasResponse
    /\ chatCompletion[1].choices = 0
    /\ rounds >= 1
    /\ messages = lastRequest

\* C18: with an empty prompt ask sends nothing to the endpoint, makes no
\* transport attempt, and returns the bad-options error
C18_EmptyPromptRejected ==
    cfgPrompt = "" =>
        /\ attempts = 0
        /\ modelCalls = 0
        /\ lastRequest = <<>>
        /\ pc = "done" => result = Failure("bad_options")

\* C19: once ctx is cancelled no transport attempt is started, and a call that
\* ends cancelled returns the call-failed error and no value
C19_CancelStopsRetry ==
    /\ [][ctxCancelled => (attempts' = attempts /\ failures' = failures)]_vars
    /\ []((pc = "done" /\ ctxCancelled) => result = Failure("api_call_failed"))

C19_Witness ==
    /\ pc = "done"
    /\ ctxCancelled
    /\ failures >= 1
    /\ cfgRetries = DefaultRetries
    /\ result = Failure("api_call_failed")

\* every handler of the round was called and returned without error
AllHandlersSucceeded == \A i \in TaskIds : handlerErr[i] = "nil"

\* C23: when a tool round in which every handler succeeded has been joined, each
\* call id of the round tags exactly one tool message of the round, and every
\* tool message of the round is tagged with an id the round requested
C23_OneResultPerCallId ==
    (RoundJoined /\ AllHandlersSucceeded) =>
        /\ \A i \in TaskIds :
              Cardinality({k \in ToolMessagesOfRound : messages[k].call = <<rounds, i>>}) = 1
        /\ \A k \in ToolMessagesOfRound : messages[k].call[2] \in TaskIds

C23_Witness ==
    /\ RoundJoined /\ AllHandlersSucceeded
    /\ Len(Calls) = 2
    /\ Cardinality(ToolMessagesOfRound) = 2

\* the positions of the tool messages
ToolPositions == {k \in 1..Len(messages) : messages[k].role = "tool"}

\* C24: a step of ask only ever extends the message sequence at its end, and
\* every tool message lies after the assistant message of its own round and
\* before the assistant message of every later round
C24_MessagesAppendOnly ==
    /\ [][/\ Len(messages') >= Len(messages)
          /\ SubSeq(messages', 1, Len(messages)) = messages]_vars
    /\ [](\A k \in ToolPositions :
            /\ \E j \in 1..(k - 1) :
                  /\ messages[j].role = "assistant"
                  /\ messages[j].call[1] = messages[k].call[1]
            /\ \A j \in 1..Len(messages) :
                  (messages[j].role = "assistant" /\ messages[j].call[1] > messages[k].call[1])
                      => j > k)

C24_Witness ==
    /\ pc = "done" /\ result.err = "nil"
    /\ rounds = 2
    /\ Cardinality(ToolPositions) = 2

\* C25: the before stage has not run and nothing has been sent while ask has not
\* started, and from then on, through every retry and every turn of the tool
\* loop, it has run exactly once
C25_BeforeHooksOnce ==
    /\ beforeHookRuns = 0 => (pc = "init" /\ attempts = 0 /\ lastRequest = <<>>)
    /\ pc # "init" => beforeHookRuns = 1

C25_Witness ==
    /\ clientHooks # <<>>
    /\ pc = "call" /\ rounds >= 1 /\ failures >= 1
    /\ beforeHookRuns = 1

\* C26: the value a stage returns carries the marks of all the client's hooks in
\* registration order, added to the value ask gave the stage: hook k worked on
\* what hook k-1 returned, and the last hook's return value is the result
C26_HooksChainInOrder ==
    /\ beforeHookRuns > 0 =>
          beforeOut = [schema |-> params.schema, trail |-> clientHooks]
    /\ afterHookRuns > 0 =>
          afterOut = [resp |-> processed.resp, err |-> processed.err, trail |-> clientHooks]

C26_Witness ==
    /\ Len(clientHooks) = 2
    /\ pc = "done"
    /\ beforeOut.trail = <<1, 2>>
    /\ afterOut.trail = <<1, 2>>
    /\ afterOut.resp # <<>>

\* C32: the after-hooks are called with the outcome of the retry loop before
\* Ask acts on it: a failed loop hands them a nil response and the terminal
\* error, and they have run by the time Ask has returned that error; a
\* successful loop hands them the response it received and a nil error
C32_AfterHooksGetOutcome ==
    /\ (pc = "done" /\ result.err = "api_call_failed") =>
          (afterHookRuns > 0 /\ afterIn.err # "nil")
    /\ afterHookRuns > 0 =>
          /\ afterIn.err # "nil" => afterIn.resp = <<>>
          /\ afterIn.err = "nil" => (afterIn.resp # <<>> /\ afterIn.resp = chatCompletion)

\* C33: with a budget of n >= 1, no model call of any turn makes more than n
\* attempts, and a call that ends because its attempts are used up, in the
\* first turn or a later one, has made n attempts that all failed: the
\* attempts of earlier turns are not counted against it
C33_BudgetPerModelCall ==
    cfgRetries # 0 =>
        /\ failures <= attempts /\ attempts <= cfgRetries
        /\ (pc = "done" /\ result.err = "api_call_failed" /\ ~ctxCancelled) =>
              (attempts = cfgRetries /\ failures = cfgRetries)

C33_Witness ==
    /\ cfgRetries = DefaultRetries
    /\ rounds = 2
    /\ pc = "done" /\ result.err = "api_call_failed" /\ ~ctxCancelled
    /\ failures = DefaultRetries

\* C29: when a tool round has been joined, a call whose handler succeeded has
\* its message appended and a call whose handler failed has none, whatever its
\* siblings did and whenever they did it
C29_AppendDependsOnOwnOutcome ==
    RoundJoined =>
        \A i \in TaskIds :
            /\ handlerErr[i] = "nil" => appended[i]
            /\ handlerErr[i] \in {"tool", "decode"} => ~appended[i]

\* C30: in a model call whose transport has failed on every attempt so far, the
\* number of attempts is within the retry budget (a budget of 0 is allowed the
\* one attempt a call cannot do without), and once the budget is used up ask
\* has returned the call-failed error
C30_AttemptsWithinBudget ==
    attempts = failures =>
        /\ attempts <= (IF cfgRetries = 0 THEN 1 ELSE cfgRetries)
        /\ (attempts >= 1 /\ attempts >= cfgRetries /\ ~ctxCancelled) =>
              (pc = "done" /\ result = Failure("api_call_failed"))

NodeNames == {"a", "b", GraphExit, GraphRetry}
\* what a Runner can return as the next node
Transitions == NodeNames \cup {"missing"}

NoRunResult == [ctx |-> <<>>, err |-> "nil"]

GraphInit ==
    /\ gNodes \in SeqsUpTo(NodeNames, MaxNodes)
    /\ gpc = "new"
    /\ graph = <<>>
    /\ currentNodeName = ""
    /\ currentContext = 0
    /\ initialContext = 0
    /\ gLog = <<>>
    /\ gRuns = 0
    /\ gResult = NoRunResult

GInit ==
    /\ AskIdle
    /\ cfgRetries = DefaultRetries
    /\ outputIsString = FALSE
    /\ lfConfigured \in BOOLEAN
    /\ cfgPrompt = "prompt"
    /\ cfgSystem = ""
    /\ cfgFiles = <<>>
    /\ clientHooks = <<>>
    /\ ToolIdle
    /\ AIIdle
    /\ VecIdle
    /\ GraphInit

\* variant: a later node silently replaces an earlier one of the same name
HasDuplicateOverwrites(nodes) == FALSE

\* NewGraph finds a name it has already put in nodeMap
HasDuplicate(nodes) == \E i, j \in 1..Len(nodes) : i < j /\ nodes[i] = nodes[j]

NewGraph ==
    /\ gpc = "new"
    /\ IF Len(gNodes) = 0 \/ HasDuplicate(gNodes)
         THEN /\ gpc' = "rejected"
              /\ UNCHANGED graph
         ELSE /\ graph' = <<[nodes |-> {gNodes[i] : i \in 1..Len(gNodes)},
                             entrypoint |-> gNodes[1]]>>
              /\ gpc' = "idle"
    /\ UNCHANGED <<gNodes, currentNodeName, currentContext, initialContext, gLog, gRuns,
                   gResult>>
    /\ UNCHANGED <<askVars, toolVars, aiVars, vecVars>>

\* variant: a run resumes at the node the previous run stopped at
StartNodeResumed(entrypoint, last) == last

\* currentNodeName := g.entrypoint
StartNode(entrypoint, last) == entrypoint

\* Graph.Run: WithTrace, then the first two assignments of Graph.run
RunStart ==
    /\ gpc \in {"idle", "done"}
    /\ gRuns < MaxRuns
    /\ gRuns' = gRuns + 1
    /\ gLog' = <<>>
    /\ \E c \in {0, 1} :
        /\ initialContext' = c
        /\ \/ \* Langfuse fails to create the trace: Run returns before Graph.run
              /\ lfConfigured
              /\ gResult' = [ctx |-> <<>>, err |-> "trace_failed"]
              /\ gpc' = "done"
              /\ UNCHANGED <<currentNodeName, currentContext>>
           \/ /\ currentContext' = c
              /\ currentNodeName' = StartNode(graph[1].entrypoint, currentNodeName)
              /\ gResult' = NoRunResult
              /\ gpc' = "running"
    /\ UNCHANGED <<gNodes, graph>>
    /\ UNCHANGED <<askVars, toolVars, aiVars, vecVars>>

\* variant: the run returns the context it was started with
ExitResultInitial(initial, current) == [ctx |-> <<initial>>, err |-> "nil"]

\* what Graph.run returns after its loop: &currentContext, nil
ExitResult(initial, current) == [ctx |-> <<current>>, err |-> "nil"]

\* the loop condition of Graph.run fails: return &currentContext, nil
RunExit ==
    /\ gpc = "running"
    /\ currentNodeName = GraphExit
    /\ gResult' = ExitResult(initialContext, currentContext)
    /\ gpc' = "done"
    /\ UNCHANGED <<gNodes, graph, currentNodeName, currentContext, initialContext, gLog,
                   gRuns>>
    /\ UNCHANGED <<askVars, toolVars, aiVars, vecVars>>

\* variant: an unknown name ends the loop like GraphExit
NotFoundResultSilent(ctx) == [ctx |-> <<ctx>>, err |-> "nil"]

\* what Graph.run returns when g.nodes has no currentNodeName
NotFoundResult(ctx) == [ctx |-> <<>>, err |-> "node_not_found"]

RunNotFound ==
    /\ gpc = "running"
    /\ currentNodeName # GraphExit
    /\ currentNodeName \notin graph[1].nodes
    /\ gResult' = NotFoundResult(currentContext)
    /\ gpc' = "done"
    /\ UNCHANGED <<gNodes, graph, currentNodeName, currentContext, initialContext, gLog,
                   gRuns>>
    /\ UNCHANGED <<askVars, toolVars, aiVars, vecVars>>

\* variant: the error is returned together with &currentContext
NodeErrorResultWithContext(ctx) == [ctx |-> <<ctx>>, err |-> "node_failed"]

\* what Graph.run returns when the Runner returned an error
NodeErrorResult(ctx) == [ctx |-> <<>>, err |-> "node_failed"]

\* variant: GraphRetry is not recognised and is looked up as a node name
NextNodeNameNoRetry(current, next) == next

\* the node the loop runs after a Runner returned next without an error
NextNodeName(current, next) == IF next = GraphRetry THEN current ELSE next

\* variant: the engine keeps the context it passed in, not the returned one
KeptContextPassed(passed, returned) == passed

\* currentContext, nextNodeName, err = node.Runner(ctx, nodeArg)
KeptContext(passed, returned) == returned

\* Graph.run from the return of node.Runner to the end of the loop body
RunnerReturned(out, next, failed) ==
    /\ gLog' = Append(gLog, [node |-> currentNodeName, in |-> currentContext,
                             out |-> out, next |-> next, failed |-> failed])
    /\ currentContext' = KeptContext(currentContext, out)
    /\ IF failed
         THEN /\ gResult' = NodeErrorResult(out)
              /\ gpc' = "done"
              /\ UNCHANGED currentNodeName
         ELSE /\ currentNodeName' = NextNodeName(currentNodeName, next)
              /\ UNCHANGED <<gResult, gpc>>
    /\ UNCHANGED <<gNodes, graph, initialContext, gRuns>>

\* one iteration of the loop of Graph.run that finds and runs the node
NodeExec ==
    /\ gpc = "running"
    /\ currentNodeName # GraphExit
    /\ currentNodeName \in graph[1].nodes
    /\ Len(gLog) < MaxSteps
    /\ \E out \in {currentContext, currentContext + 1}, next \in Transitions, failed \in BOOLEAN :
        /\ failed => next = ""
        /\ RunnerReturned(out, next, failed)
    /\ UNCHANGED <<askVars, toolVars, aiVars, vecVars>>

GNext ==
    \/ NewGraph
    \/ RunStart
    \/ RunExit
    \/ RunNotFound
    \/ NodeExec

GraphSpec == GInit /\ [][GNext]_vars

\* ---------------------------------------------------------------- properties of the graph engine
Last(q) == q[Len(q)]
Registered == IF graph = <<>> THEN {} ELSE graph[1].nodes

\* the run so far is one node returning Retry, n times, and then Exit
RetriesThenExit ==
    /\ gLog # <<>>
    /\ ~Last(gLog).failed /\ Last(gLog).next = GraphExit
    /\ \A k \in 1..(Len(gLog) - 1) : ~gLog[k].failed /\ gLog[k].next = GraphRetry

\* C4: after an execution that returned Retry the engine is at the same node
\* with the context that execution returned, and the next execution is of that
\* node with that context; a run of n Retry returns and then Exit is n+1
\* executions of one node and ends successfully with the last returned context
\* (3 when the counter starts at 0, n = 2 and every execution adds one).
C4_RetryReexecutes ==
    /\ \A k \in 1..(Len(gLog) - 1) :
          (~gLog[k].failed /\ gLog[k].next = GraphRetry) =>
              (gLog[k + 1].node = gLog[k].node /\ gLog[k + 1].in = gLog[k].out)
    /\ (gLog # <<>> /\ ~Last(gLog).failed /\ Last(gLog).next = GraphRetry) =>
          (gpc = "running" /\ currentNodeName = Last(gLog).node
           /\ currentContext = Last(gLog).out)
    /\ (gpc = "done" /\ RetriesThenExit) =>
          /\ \A k \in 1..Len(gLog) : gLog[k].node = gLog[1].node
          /\ gLog[1].in = initialContext
          /\ gResult = [ctx |-> <<Last(gLog).out>>, err |-> "nil"]
          /\ (initialContext = 0 /\ Len(gLog) = 3
              /\ \A k \in 1..3 : gLog[k].out = gLog[k].in + 1) => gResult.ctx = <<3>>

C4_Witness ==
    /\ gpc = "done" /\ RetriesThenExit /\ Len(gLog) = 3
    /\ initialContext = 0 /\ \A k \in 1..3 : gLog[k].out = gLog[k].in + 1
    /\ gResult.ctx = <<3>>

\* an execution returned, without error, a name that is no sentinel and no node
ReturnedUnregistered(e) ==
    ~e.failed /\ e.next \notin (Registered \cup {GraphExit, GraphRetry})

\* C9: an execution that returns an unregistered name is the last execution of
\* its run, and the run ends with an error and no context.
C9_UnregisteredNameFails ==
    \A k \in 1..Len(gLog) :
        ReturnedUnregistered(gLog[k]) =>
            /\ k = Len(gLog)
            /\ gpc \in {"running", "done"}
            /\ gpc = "running" => currentNodeName = gLog[k].next
            /\ gpc = "done" => gResult = [ctx |-> <<>>, err |-> "node_not_found"]

C9_Witness ==
    /\ gpc = "done" /\ Len(gLog) >= 2 /\ ReturnedUnregistered(Last(gLog))
    /\ gResult.err = "node_not_found"

\* C10: an execution that returns an error is the last execution of its run,
\* and the run has ended with the wrapped error and no context.
C10_NodeErrorHalts ==
    \A k \in 1..Len(gLog) :
        gLog[k].failed =>
            /\ k = Len(gLog)
            /\ gpc = "done"
            /\ gResult = [ctx |-> <<>>, err |-> "node_failed"]

C10_Witness ==
    /\ gpc = "done" /\ Len(gLog) >= 2 /\ Last(gLog).failed
    /\ Last(gLog).out # initialContext
    /\ gResult.ctx = <<>>

\* two of the nodes given to NewGraph share a name
DuplicateNames == Cardinality({gNodes[i] : i \in 1..Len(gNodes)}) < Len(gNodes)

\* C11: when two of the given nodes share a name NewGraph returns no graph, and
\* no run ever starts: nothing is executed, counted or returned
C11_DuplicateNamesRejected ==
    DuplicateNames =>
        /\ gpc \in {"new", "rejected"}
        /\ graph = <<>>
        /\ gRuns = 0
        /\ gLog = <<>>
        /\ gResult = NoRunResult

C11_Witness == DuplicateNames /\ gpc = "rejected" /\ gNodes[1] # GraphExit

\* the last execution of the run returned Exit without an error
ReturnedExit == gLog # <<>> /\ ~Last(gLog).failed /\ Last(gLog).next = GraphExit

\* C21: an execution that returns Exit is the last one of its run; the engine
\* then holds the context that execution returned and runs nothing more, and
\* the run ends without error with exactly that context as its result
C21_ExitReturnsLastContext ==
    /\ \A k \in 1..(Len(gLog) - 1) : gLog[k].failed \/ gLog[k].next # GraphExit
    /\ ReturnedExit =>
          /\ gpc = "running" =>
                (currentNodeName = GraphExit /\ currentContext = Last(gLog).out)
          /\ gpc = "done" => gResult = [ctx |-> <<Last(gLog).out>>, err |-> "nil"]

C21_Witness ==
    /\ gpc = "done" /\ ReturnedExit /\ Len(gLog) >= 2
    /\ Last(gLog).out # initialContext
    /\ gResult = [ctx |-> <<Last(gLog).out>>, err |-> "nil"]

\* C22: on a graph NewGraph accepted, the first execution of every run is of
\* the first node given at construction, with the caller's initial context, and
\* no run that entered Graph.run ends without having executed it
C22_RunStartsAtFirstNode ==
    /\ gLog # <<>> => (gLog[1].node = gNodes[1] /\ gLog[1].in = initialContext)
    /\ (gpc = "done" /\ gResult.err # "trace_failed") => gLog # <<>>

\* C31: an execution that returns the name of a registered node is followed by
\* the execution of that node (the run does not end or repeat instead), and a
\* run that ended without error has executed at least one node; this also for
\* graphs that register a node under the Exit or the Retry value
C31_NamesNotConfusedWithSentinels ==
    /\ \A k \in 1..Len(gLog) :
          (~gLog[k].failed /\ gLog[k].next \in Registered) =>
              IF k < Len(gLog) THEN gLog[k + 1].node = gLog[k].next
              ELSE gpc = "running" /\ currentNodeName = gLog[k].next
    /\ (gpc = "done" /\ gResult.err = "nil") => gLog # <<>>

\* C35: the first execution of a run is passed the caller's initial context,
\* every later one the context the execution before it returned, and between
\* executions the engine holds the context returned last
C35_ContextThreaded ==
    /\ gLog # <<>> => gLog[1].in = initialContext
    /\ \A k \in 1..(Len(gLog) - 1) : gLog[k + 1].in = gLog[k].out
    /\ gpc = "running" =>
          currentContext = (IF gLog = <<>> THEN initialContext ELSE Last(gLog).out)

C35_Witness ==
    /\ Len(gLog) = 3
    /\ gLog[1].out # gLog[1].in
    /\ gLog[2].out # gLog[2].in
    /\ gLog[3].in = initialContext + 2
    /\ gLog[2].node # gLog[1].node

\* C36: once NewGraph has returned a graph, its node map and entry point stay
\* as constructed through every run, and every run, the first and the later
\* ones, enters Graph.run at the entry point with the initial context its
\* caller gave, with nothing executed yet
C36_RunsLeaveGraphUnchanged ==
    /\ graph # <<>> =>
          graph = <<[nodes |-> {gNodes[i] : i \in 1..Len(gNodes)}, entrypoint |-> gNodes[1]]>>
    /\ (gpc = "running" /\ gLog = <<>>) =>
          (currentNodeName = gNodes[1] /\ currentContext = initialContext)
    /\ gLog # <<>> => (gLog[1].node = gNodes[1] /\ gLog[1].in = initialContext)

C36_Witness ==
    /\ gRuns = 2 /\ gpc = "running"
    /\ Len(gLog) = 1
    /\ gLog[1].node = gNodes[1]
    /\ initialContext = 1
    /\ currentNodeName # gNodes[1]

\* ---------------------------------------------------------------- Tool.Run
\* the argument shape of the tool: type ToolArgs struct { Query string; Limit int }
ArgShape == [query |-> "string", limit |-> "number"]
ZeroArgs == [query |-> "", limit |-> 0]

\* the value json.Unmarshal stores in a field for a JSON value of the field's type
Stored(kind) == IF kind = "string" THEN "q" ELSE 1

\* json.Unmarshal([]byte(argsJson), &args) into a struct: text that is not JSON
\* is an error; a key that names no field is skipped; null leaves the field as
\* it is; a value of another type than the field's is an error; a field the
\* text has no key for keeps its zero value
UnmarshalArgs(text) ==
    LET f == text.fields
        Known == DOMAIN f \cap DOMAIN ArgShape
        Mismatch == {k \in Known : f[k] # "null" /\ f[k] # ArgShape[k]}
    IN  IF ~text.wellFormed \/ Mismatch # {}
        THEN [ok |-> FALSE, value |-> ZeroArgs]
        ELSE [ok |-> TRUE,
              value |-> [k \in DOMAIN ArgShape |->
                           IF k \in Known /\ f[k] # "null" THEN Stored(f[k])
                           ELSE ZeroArgs[k]]]

ToolInit ==
    /\ AskIdle
    /\ cfgRetries = DefaultRetries
    /\ outputIsString = FALSE
    /\ lfConfigured = FALSE
    /\ cfgPrompt = "prompt"
    /\ cfgSystem = ""
    /\ cfgFiles = <<>>
    /\ clientHooks = <<>>
    /\ GraphIdle
    /\ AIIdle
    /\ VecIdle
    /\ argsJson \in ArgTexts
    /\ toolPc = "ready"
    /\ runnerArgs = <<>>
    /\ runnerCalls = 0
    /\ toolResult = NoToolResult

\* Tool.Run(ctx, argsJson)
ToolRun ==
    /\ toolPc = "ready"
    /\ toolPc' = "returned"
    /\ LET d == UnmarshalArgs(argsJson) IN
         IF ~d.ok
         THEN /\ toolResult' = [out |-> <<>>, err |-> "decode"]
              /\ UNCHANGED <<runnerArgs, runnerCalls>>
         ELSE /\ runnerArgs' = <<d.value>>
              /\ runnerCalls' = runnerCalls + 1
              /\ \E ok \in BOOLEAN :
                   toolResult' = IF ok THEN [out |-> <<"result">>, err |-> "nil"]
                                 ELSE [out |-> <<>>, err |-> "tool"]
    /\ UNCHANGED argsJson
    /\ UNCHANGED <<askVars, graphVars, aiVars, vecVars>>

ToolNext == ToolRun

ToolSpec == ToolInit /\ [][ToolNext]_vars

\* the argument text is malformed, has a key the shape does not declare, or
\* lacks a key of the shape
NotOfShape(text) ==
    \/ ~text.wellFormed
    \/ DOMAIN text.fields \ DOMAIN ArgShape # {}
    \/ DOMAIN ArgShape \ DOMAIN text.fields # {}

\* C20: when Tool.Run has returned for an argument text that is malformed, has
\* an undeclared field or omits a required field, it has returned a decode
\* error and the Runner has not been called
C20_StrictArgumentDecoding ==
    (toolPc = "returned" /\ NotOfShape(argsJson)) =>
        /\ toolResult = [out |-> <<>>, err |-> "decode"]
        /\ runnerCalls = 0

\* ---------------------------------------------------------------- NewAICallNode
\* a run of a graph whose only node, "a", was built by NewAICallNode, from the
\* entry of Graph.run; Ask is the driver above, restarted for every execution
AIInit ==
    /\ AskIdle
    /\ cfgRetries = DefaultRetries
    /\ outputIsString = FALSE
    /\ lfConfigured = FALSE
    /\ cfgPrompt = ""
    /\ cfgSystem \in {"", "system"}
    /\ cfgFiles = <<>>
    /\ clientHooks = <<>>
    /\ ToolIdle
    /\ AIIdle
    /\ VecIdle
    /\ gNodes = <<"a">>
    /\ graph = <<[nodes |-> {"a"}, entrypoint |-> "a"]>>
    /\ gpc = "running"
    /\ gRuns = 1
    /\ initialContext = 0
    /\ currentContext = initialContext
    /\ currentNodeName = "a"
    /\ gLog = <<>>
    /\ gResult = NoRunResult

\* Ask[StructuredOutput](ctx, arg.Client, WithPrompt(prompt), ...) is entered:
\* a new call of ask, on the context of the run
AskEntered(prompt) ==
    /\ cfgPrompt' = prompt
    /\ pc' = "init"
    /\ params' = NoParams
    /\ beforeOut' = NoParams
    /\ lastParams' = NoParams
    /\ afterIn' = NoPair
    /\ afterOut' = NoPair
    /\ processed' = NoPair
    /\ messages' = <<>>
    /\ chatCompletion' = <<>>
    /\ err' = "nil"
    /\ attempts' = 0
    /\ failures' = 0
    /\ modelCalls' = 0
    /\ rounds' = 0
    /\ callsSeen' = 0
    /\ task' = NoTasks
    /\ taskResult' = NoTasks
    /\ errSeen' = NoTasks
    /\ snap' = NoTasks
    /\ lock' = 0
    /\ handlerRuns' = NoTasks
    /\ handlerErr' = NoTasks
    /\ appended' = NoTasks
    /\ msgBase' = 0
    /\ toolFailed' = FALSE
    /\ beforeHookRuns' = 0
    /\ afterHookRuns' = 0
    /\ lastRequest' = <<>>
    /\ result' = NoResult
    /\ UNCHANGED <<cfgRetries, outputIsString, lfConfigured, cfgSystem, cfgFiles, clientHooks,
                   ctxCancelled>>

\* variant: the error of the prompt generator is not looked at
PromptUsableUnchecked(failed) == TRUE

\* the Runner goes on to Ask only if PromptGenerator returned no error
PromptUsable(failed) == ~failed

\* the Runner is called by Graph.run and runs up to Ask, or returns the wrapped
\* error of the prompt generator
AIPrompt ==
    /\ gpc = "running"
    /\ currentNodeName # GraphExit
    /\ currentNodeName \in graph[1].nodes
    /\ aipc = "idle"
    /\ Len(gLog) < MaxAIExecs
    /\ nodeArg' = currentContext
    /\ callbackCalls' = 0
    /\ callbackArgs' = <<>>
    /\ callbackReturn' = <<>>
    /\ \E failed \in BOOLEAN :
        /\ promptFailed' = failed
        /\ IF PromptUsable(failed)
             THEN /\ askCalls' = 1
                  /\ aipc' = "asking"
                  /\ nodeReturn' = <<>>
                  /\ AskEntered(IF failed THEN "" ELSE "prompt")
                  /\ UNCHANGED graphVars
             ELSE /\ askCalls' = 0
                  /\ aipc' = "idle"
                  /\ nodeReturn' = <<[ctx |-> currentContext, next |-> "",
                                      err |-> "prompt_failed"]>>
                  /\ RunnerReturned(currentContext, "", TRUE)
                  /\ UNCHANGED askVars
    /\ UNCHANGED <<toolVars, vecVars>>

\* variant: the Callback is called whatever Ask returned
CallbackDueAlways(e) == TRUE

\* the Runner calls the Callback only if Ask returned no error
CallbackDue(e) == e = "nil"

\* Ask returned an error: the Runner returns it wrapped, with arg.Context
AIAskFailed ==
    /\ aipc = "asking"
    /\ pc = "done"
    /\ ~CallbackDue(result.err)
    /\ aipc' = "idle"
    /\ nodeReturn' = <<[ctx |-> nodeArg, next |-> "", err |-> "ask_failed"]>>
    /\ RunnerReturned(nodeArg, "", TRUE)
    /\ UNCHANGED <<nodeArg, promptFailed, askCalls, callbackCalls, callbackArgs,
                   callbackReturn>>
    /\ UNCHANGED <<askVars, toolVars, vecVars>>

\* Ask returned a value: return node.Callback(ctx, arg, aiOutput)
AICallback ==
    /\ aipc = "asking"
    /\ pc = "done"
    /\ CallbackDue(result.err)
    /\ aipc' = "idle"
    /\ callbackCalls' = callbackCalls + 1
    /\ callbackArgs' = <<[output |-> result.out, ctx |-> nodeArg]>>
    /\ \E out \in {nodeArg, nodeArg + 1}, next \in Transitions, failed \in BOOLEAN :
        /\ failed => next = ""
        /\ callbackReturn' = <<[ctx |-> out, next |-> next, failed |-> failed]>>
        /\ nodeReturn' = <<[ctx |-> out, next |-> next,
                            err |-> IF failed THEN "callback_failed" ELSE "nil"]>>
        /\ RunnerReturned(out, next, failed)
    /\ UNCHANGED <<nodeArg, promptFailed, askCalls>>
    /\ UNCHANGED <<askVars, toolVars, vecVars>>

AINext ==
    \/ AIPrompt
    \/ aipc = "asking" /\ Next
    \/ AIAskFailed
    \/ AICallback
    \/ RunExit
    \/ RunNotFound

AINodeSpec == AIInit /\ [][AINext]_vars

\* the Runner is not executing and its last execution has returned
AIReturned == aipc = "idle" /\ nodeReturn # <<>>

\* C27: an execution of an AI node whose prompt generator returned an error
\* never enters Ask and never calls the Callback; the Runner returns the wrapped
\* error with the context it was given, and the run has ended with the node
\* error and no context
C27_PromptErrorHaltsRun ==
    promptFailed =>
        /\ aipc = "idle"
        /\ askCalls = 0
        /\ callbackCalls = 0
        /\ nodeReturn = <<[ctx |-> nodeArg, next |-> "", err |-> "prompt_failed"]>>
        /\ Last(gLog).failed
        /\ gpc = "done"
        /\ gResult = [ctx |-> <<>>, err |-> "node_failed"]

C27_Witness ==
    /\ promptFailed /\ gpc = "done"
    /\ Len(gLog) = 2
    /\ rounds >= 1
    /\ nodeArg # initialContext

\* C28: an execution of an AI node whose prompt was generated calls Ask once.
\* While Ask runs the Callback has not been called. When Ask has returned a
\* value the Callback has been called once, with that value and the context the
\* node received, and the Runner has returned, and the engine has taken, what
\* the Callback returned. When Ask has returned an error the Callback has not
\* been called and the Runner has returned the wrapped error.
C28_OneAskThenCallback ==
    /\ aipc = "asking" => (askCalls = 1 /\ callbackCalls = 0 /\ callbackArgs = <<>>)
    /\ (AIReturned /\ ~promptFailed) =>
          /\ askCalls = 1
          /\ pc = "done"
          /\ IF result.err = "nil"
               THEN /\ callbackCalls = 1
                    /\ result.out = <<"decoded">>
                    /\ callbackArgs = <<[output |-> result.out, ctx |-> nodeArg]>>
                    /\ callbackReturn # <<>>
                    /\ nodeReturn[1].ctx = callbackReturn[1].ctx
                    /\ nodeReturn[1].next = callbackReturn[1].next
                    /\ (nodeReturn[1].err # "nil") = callbackReturn[1].failed
                    /\ Last(gLog).out = callbackReturn[1].ctx
                    /\ Last(gLog).next = callbackReturn[1].next
               ELSE /\ callbackCalls = 0
                    /\ callbackArgs = <<>>
                    /\ nodeReturn = <<[ctx |-> nodeArg, next |-> "", err |-> "ask_failed"]>>
                    /\ gResult = [ctx |-> <<>>, err |-> "node_failed"]

C28_Witness ==
    /\ AIReturned /\ ~promptFailed
    /\ Len(gLog) = 2
    /\ callbackCalls = 1
    /\ rounds >= 1
    /\ nodeReturn[1].err = "nil"
    /\ nodeReturn[1].ctx = initialContext + 2

C28_Witness_AskFailed ==
    /\ AIReturned /\ ~promptFailed
    /\ result.err = "api_call_failed"
    /\ callbackCalls = 0
    /\ gpc = "done"

\* ---------------------------------------------------------------- RedisVectorDB
DocIds == {"d1", "d2"}

\* config.Dimensions given to CreateIndex
ConfigDims == {0, 2, 3}

\* length of a vector the embedding service returns
EmbedDims == {2, 3}

\* config.DistanceMetric given to CreateIndex
Metrics == {"", "COSINE", "MANHATTAN"}

\* validMetrics[distanceMetric], the empty metric standing for COSINE
ValidMetric(metric) ==
    LET distanceMetric == IF metric = "" THEN "COSINE" ELSE metric
    IN distanceMetric \in {"L2", "COSINE", "IP"}

Range(q) == {q[i] : i \in 1..Len(q)}

\* variant: the operations go on without looking at r.indexConfig
IndexCreatedUnchecked(cfg) == TRUE

\* r.indexConfig != nil
IndexCreated(cfg) == cfg # <<>>

\* r.indexConfig.Dimensions
Dimensions(cfg) == IF cfg = <<>> THEN 0 ELSE cfg[1].Dimensions

\* what an operation did, as kept in vOp
Op(name, e, docs, embedCalls, dims, queued, written, query) ==
    [op |-> name, err |-> e, docs |-> docs, before |-> store, embedCalls |-> embedCalls,
     dims |-> dims, queued |-> queued, written |-> written, query |-> query]

\* an operation that returns e before it embeds or touches Redis
Refused(name, e, docs) == Op(name, e, docs, 0, <<>>, <<>>, {}, <<>>)

\* RedisVectorDB.CreateIndex
CreateIndex ==
    \E d \in ConfigDims, metric \in Metrics, fieldsOk \in BOOLEAN, ft \in {"ok", "exists", "error"} :
        LET e == IF d <= 0 THEN "dimensions"
                 ELSE IF ~ValidMetric(metric) THEN "invalid_metric"
                 ELSE IF ~fieldsOk THEN "unsupported_field_type"
                 ELSE IF ft = "error" THEN "create_failed"
                 ELSE "nil"
        IN /\ indexConfig' = IF e = "nil" THEN <<[Dimensions |-> d]>> ELSE indexConfig
           /\ vOp' = Refused("CreateIndex", e, <<>>)
           /\ UNCHANGED <<store, searchFilters>>
           /\ UNCHANGED <<askVars, graphVars, toolVars, aiVars>>

\* the body of RedisVectorDB.StoreDocument, called under the name given
Store(name, doc) ==
    \E embedOk \in BOOLEAN, d \in EmbedDims, hsetOk \in BOOLEAN :
        /\ vOp' =
             IF ~IndexCreated(indexConfig) THEN Refused(name, "index_not_created", <<doc>>)
             ELSE IF ~embedOk THEN Op(name, "embed_failed", <<doc>>, 1, <<>>, <<>>, {}, <<>>)
             ELSE IF d # Dimensions(indexConfig)
                  THEN Op(name, "dimension_mismatch", <<doc>>, 1, <<d>>, <<>>, {}, <<>>)
             ELSE IF ~hsetOk THEN Op(name, "store_failed", <<doc>>, 1, <<d>>, <<doc>>, {}, <<>>)
             ELSE Op(name, "nil", <<doc>>, 1, <<d>>, <<doc>>, {doc}, <<>>)
        /\ store' = store \cup vOp'.written
        /\ UNCHANGED <<indexConfig, searchFilters>>
        /\ UNCHANGED <<askVars, graphVars, toolVars, aiVars>>

\* RedisVectorDB.StoreDocument
StoreDocument == \E doc \in DocIds : Store("StoreDocument", doc)

\* RedisVectorDB.UpdateDocument: return r.StoreDocument(ctx, doc)
UpdateDocument == \E doc \in DocIds : Store("UpdateDocument", doc)

\* position of the first vector whose length differs from want, 0 when none does
RECURSIVE FirstMismatch(_, _, _)
FirstMismatch(dims, want, i) ==
    IF i > Len(dims) THEN 0
    ELSE IF dims[i] # want THEN i
    ELSE FirstMismatch(dims, want, i + 1)

\* variant: every HSet is sent to Redis as it is issued
PipelineWritesImmediate(queued, execCalled) == Range(queued)

\* what a pipeline writes: its queued commands are sent by pipe.Exec only
PipelineWrites(queued, execCalled) == IF execCalled THEN Range(queued) ELSE {}

\* RedisVectorDB.StoreDocumentsBatch; a failed pipe.Exec may have written any
\* part of what was queued
StoreDocumentsBatch ==
    \E docs \in SeqsUpTo(DocIds, MaxBatch), embedOk \in BOOLEAN, execOk \in BOOLEAN :
    \E dims \in [1..Len(docs) -> EmbedDims], partial \in SUBSET Range(docs) :
        LET name == "StoreDocumentsBatch"
            bad == FirstMismatch(dims, Dimensions(indexConfig), 1)
            queued == IF bad = 0 THEN docs ELSE SubSeq(docs, 1, bad - 1)
            sent == PipelineWrites(queued, bad = 0)
        IN /\ vOp' =
                IF Len(docs) = 0 THEN Refused(name, "nil", docs)
                ELSE IF ~IndexCreated(indexConfig) THEN Refused(name, "index_not_created", docs)
                ELSE IF ~embedOk THEN Op(name, "embed_failed", docs, 1, <<>>, <<>>, {}, <<>>)
                ELSE IF bad # 0 THEN Op(name, "dimension_mismatch", docs, 1, dims, queued, sent, <<>>)
                ELSE IF ~execOk
                     THEN Op(name, "store_failed", docs, 1, dims, queued, sent \cap partial, <<>>)
                ELSE Op(name, "nil", docs, 1, dims, queued, sent, <<>>)
           /\ store' = store \cup vOp'.written
           /\ UNCHANGED <<indexConfig, searchFilters>>
           /\ UNCHANGED <<askVars, graphVars, toolVars, aiVars>>

\* RedisVectorDB.DeleteDocument
DeleteDocument ==
    \E id \in DocIds, delOk \in BOOLEAN :
        /\ vOp' = Refused("DeleteDocument", IF delOk THEN "nil" ELSE "delete_failed", <<id>>)
        /\ store' = IF delOk THEN store \ {id} ELSE store
        /\ UNCHANGED <<indexConfig, searchFilters>>
        /\ UNCHANGED <<askVars, graphVars, toolVars, aiVars>>

\* the filters the searches are given, each by its Operator and the dynamic
\* type of its Value: every declared operator with a value of the type its
\* documentation shows, "in" and "range" also with a value of another type,
\* and an operator that is none of the declared ones
FilterChoices ==
    {[op |-> "eq", value |-> "string"], [op |-> "contains", value |-> "string"],
     [op |-> "gte", value |-> "number"], [op |-> "lte", value |-> "number"],
     [op |-> "in", value |-> "strings"], [op |-> "in", value |-> "string"],
     [op |-> "range", value |-> "range"], [op |-> "range", value |-> "number"],
     [op |-> "like", value |-> "string"]}

\* the switch of buildFilterQuery on f.Operator: the part of one filter, ""
\* (here <<>>) when no case assigns it
FilterPart(f) ==
    CASE f.op = "eq" -> <<[syntax |-> "tag", of |-> f]>>
      [] f.op = "in" -> IF f.value = "strings" THEN <<[syntax |-> "tags", of |-> f]>> ELSE <<>>
      [] f.op = "contains" -> <<[syntax |-> "text", of |-> f]>>
      [] f.op = "range" -> IF f.value = "range" THEN <<[syntax |-> "range", of |-> f]>> ELSE <<>>
      [] f.op = "gte" -> <<[syntax |-> "from", of |-> f]>>
      [] f.op = "lte" -> <<[syntax |-> "upto", of |-> f]>>
      [] OTHER -> <<>>

\* the loop of buildFilterQuery: the non-empty parts, in the order of the filters
RECURSIVE FilterParts(_)
FilterParts(filters) ==
    IF filters = <<>> THEN <<>>
    ELSE FilterPart(Head(filters)) \o FilterParts(Tail(filters))

\* the query prefix "*"
Star == [star |-> TRUE, parts |-> <<>>]

\* RedisVectorDB.buildFilterQuery
buildFilterQuery(filters) ==
    IF Len(filters) = 0 THEN Star
    ELSE IF Len(FilterParts(filters)) = 0 THEN Star
    ELSE [star |-> FALSE, parts |-> FilterParts(filters)]

\* filterPrefix of SearchDocuments
FilterPrefix(filters) == IF Len(filters) > 0 THEN buildFilterQuery(filters) ELSE Star

\* RedisVectorDB.SearchDocuments
SearchDocuments ==
    \E topK \in {0, 1}, text \in {"", "q"}, embedOk \in BOOLEAN, d \in EmbedDims,
       ft \in {"ok", "error", "bad_metadata"} :
        LET name == "SearchDocuments"
            query == <<FilterPrefix(searchFilters)>>
        IN /\ vOp' =
                IF ~IndexCreated(indexConfig) THEN Refused(name, "index_not_created", <<>>)
                ELSE IF topK <= 0 THEN Refused(name, "topk", <<>>)
                ELSE IF text = "" THEN Refused(name, "empty_query", <<>>)
                ELSE IF ~embedOk THEN Op(name, "embed_failed", <<>>, 1, <<>>, <<>>, {}, <<>>)
                ELSE IF d # Dimensions(indexConfig)
                     THEN Op(name, "dimension_mismatch", <<>>, 1, <<d>>, <<>>, {}, <<>>)
                ELSE IF ft = "error" THEN Op(name, "search_failed", <<>>, 1, <<d>>, <<>>, {}, query)
                ELSE IF ft = "bad_metadata"
                     THEN Op(name, "unmarshal_failed", <<>>, 1, <<d>>, <<>>, {}, query)
                ELSE Op(name, "nil", <<>>, 1, <<d>>, <<>>, {}, query)
           /\ UNCHANGED <<indexConfig, store, searchFilters>>
           /\ UNCHANGED <<askVars, graphVars, toolVars, aiVars>>

\* a RedisVectorDB from NewRedisVectorDB on, its searches unfiltered or with one filter
VectorInit ==
    /\ AskIdle
    /\ cfgRetries = DefaultRetries
    /\ outputIsString = FALSE
    /\ lfConfigured = FALSE
    /\ cfgPrompt = "prompt"
    /\ cfgSystem = ""
    /\ cfgFiles = <<>>
    /\ clientHooks = <<>>
    /\ GraphIdle
    /\ ToolIdle
    /\ AIIdle
    /\ indexConfig = <<>>
    /\ store = {}
    /\ searchFilters \in {<<>>, <<[op |-> "eq", value |-> "string"]>>}
    /\ vOp = NoOp

VectorNext ==
    \/ CreateIndex
    \/ StoreDocument
    \/ StoreDocumentsBatch
    \/ UpdateDocument
    \/ DeleteDocument
    \/ SearchDocuments

VectorSpec == VectorInit /\ [][VectorNext]_vars

\* a RedisVectorDB whose index has been created, searched with every filter list
SearchInit ==
    /\ AskIdle
    /\ cfgRetries = DefaultRetries
    /\ outputIsString = FALSE
    /\ lfConfigured = FALSE
    /\ cfgPrompt = "prompt"
    /\ cfgSystem = ""
    /\ cfgFiles = <<>>
    /\ clientHooks = <<>>
    /\ GraphIdle
    /\ ToolIdle
    /\ AIIdle
    /\ indexConfig \in {<<[Dimensions |-> d]>> : d \in EmbedDims}
    /\ store = {}
    /\ searchFilters \in SeqsUpTo(FilterChoices, MaxFilters)
    /\ vOp = NoOp

SearchNext == SearchDocuments

SearchSpec == SearchInit /\ [][SearchNext]_vars

\* C37: as long as no CreateIndex has succeeded, StoreDocument, UpdateDocument,
\* SearchDocuments and StoreDocumentsBatch with a non-empty batch return the
\* index-not-created error, having made no embedding call, no Redis write (sent
\* or queued) and no Redis search, and Redis holds no document
C37_NoIndexNoWork ==
    indexConfig = <<>> =>
        /\ store = {}
        /\ (\/ vOp.op \in {"StoreDocument", "UpdateDocument", "SearchDocuments"}
            \/ vOp.op = "StoreDocumentsBatch" /\ vOp.docs # <<>>) =>
              /\ vOp.err = "index_not_created"
              /\ vOp.embedCalls = 0
              /\ vOp.queued = <<>> /\ vOp.written = {}
              /\ vOp.query = <<>>

C37_Witness ==
    /\ indexConfig = <<>>
    /\ vOp.op = "StoreDocumentsBatch"
    /\ Len(vOp.docs) = 2
    /\ vOp.err = "index_not_created"

\* C38: a StoreDocumentsBatch call whose embeddings include a vector of another
\* length than the index's dimension returns an error and writes nothing to
\* Redis: Redis holds what it held before the call, the documents that precede
\* the offending one included
C38_BatchMismatchWritesNothing ==
    (/\ vOp.op = "StoreDocumentsBatch"
     /\ \E i \in 1..Len(vOp.dims) : vOp.dims[i] # indexConfig[1].Dimensions) =>
        /\ vOp.err = "dimension_mismatch"
        /\ vOp.written = {}
        /\ store = vOp.before

C38_Witness ==
    /\ vOp.op = "StoreDocumentsBatch"
    /\ vOp.docs = <<"d1", "d2">>
    /\ indexConfig = <<[Dimensions |-> 2]>>
    /\ vOp.dims = <<2, 3>>
    /\ vOp.queued = <<"d1">>
    /\ vOp.err = "dimension_mismatch"
    /\ store = {}

\* C39: the query of a search that was given one filter or more is not the
\* unfiltered "*" query and has one conjunct for each of the filters given
C39_EveryFilterContributes ==
    (vOp.op = "SearchDocuments" /\ vOp.query # <<>> /\ Len(searchFilters) > 0) =>
        /\ ~vOp.query[1].star
        /\ Len(vOp.query[1].parts) = Len(searchFilters)
        /\ \A i \in 1..Len(searchFilters) : vOp.query[1].parts[i].of = searchFilters[i]
====
